---- MODULE Spec2Model ----
(***************************************************************************)
(* Model of tap-applovin's extraction path:                                *)
(*   - ReportsStream.request_records  (streams.py)                         *)
(*   - ReportsStream.prepare_request / get_url_params (streams.py)         *)
(*   - ReportsStream.date_range (streams.py)                               *)
(*   - ApplovinStream.validate_response (client.py)                        *)
(* Date strings are sequences of one-character strings, so that strptime   *)
(* and strftime are computed and not assumed to be inverse to each other.  *)
(***************************************************************************)
EXTENDS Integers, Sequences, FiniteSets, TLC

\* ------------------------------------------------------------------------
\* Bounds of the model
\* ------------------------------------------------------------------------
\* records on one page: 0..MaxRecs
MaxRecs == 2
\* attempts the transport's retry decorator makes before it re-raises
MaxTries == 3
\* midnights that may pass during one run
MaxTicks == 1
\* date_range: the dates are DrMin..DrMax, the interval is -1..MaxInterval
DrMax == 5
MaxInterval == 3

\* ------------------------------------------------------------------------
\* Program constants
\* ------------------------------------------------------------------------
\* self.config.get("report_range_days", 30)
DefaultRangeDays == 30

\* ------------------------------------------------------------------------
\* Calendar: datetime values are day ordinals, 1 = 2023-01-01
\* ------------------------------------------------------------------------
Years == 2023 .. 2025
FirstYear == CHOOSE y \in Years : \A z \in Years : y <= z

IsLeap(y) == (y % 4 = 0) /\ ((y % 100 # 0) \/ (y % 400 = 0))

DaysInMonth(y, m) ==
    IF m = 2 THEN (IF IsLeap(y) THEN 29 ELSE 28)
    ELSE IF m \in {4, 6, 9, 11} THEN 30 ELSE 31

DaysInYear(y) == IF IsLeap(y) THEN 366 ELSE 365

RECURSIVE DaysBeforeYear(_)
DaysBeforeYear(y) ==
    IF y <= FirstYear THEN 0 ELSE DaysBeforeYear(y - 1) + DaysInYear(y - 1)

RECURSIVE DaysBeforeMonth(_, _)
DaysBeforeMonth(y, m) ==
    IF m <= 1 THEN 0 ELSE DaysBeforeMonth(y, m - 1) + DaysInMonth(y, m - 1)

ToOrdinal(y, m, d) == DaysBeforeYear(y) + DaysBeforeMonth(y, m) + d

ValidYMD(y, m, d) ==
    /\ y \in Years
    /\ m \in 1..12
    /\ d \in 1..DaysInMonth(y, m)

\* the year, and the day of that year, of ordinal n counted from year y
RECURSIVE YearOf(_, _)
YearOf(n, y) ==
    IF n <= DaysInYear(y) THEN <<y, n>> ELSE YearOf(n - DaysInYear(y), y + 1)

\* the month, and the day of that month, of day n of year y counted from month m
RECURSIVE MonthOf(_, _, _)
MonthOf(y, m, n) ==
    IF n <= DaysInMonth(y, m) THEN <<y, m, n>>
    ELSE MonthOf(y, m + 1, n - DaysInMonth(y, m))

FromOrdinal(n) ==
    LET yn == YearOf(n, FirstYear)
    IN  MonthOf(yn[1], 1, yn[2])

\* ------------------------------------------------------------------------
\* Strings
\* ------------------------------------------------------------------------
Digits == <<"0", "1", "2", "3", "4", "5", "6", "7", "8", "9">>
DigitChars == {Digits[i] : i \in 1..10}
DigitChar(n) == Digits[n + 1]
DigitVal(c) == (CHOOSE i \in 1..10 : Digits[i] = c) - 1

NOW == <<"n", "o", "w">>

Pad2(n) == <<DigitChar(n \div 10), DigitChar(n % 10)>>
Pad4(n) == <<DigitChar(n \div 1000), DigitChar((n \div 100) % 10),
             DigitChar((n \div 10) % 10), DigitChar(n % 10)>>

\* datetime.strftime("%Y-%m-%d")
Strftime(n) ==
    LET ymd == FromOrdinal(n)
    IN  Pad4(ymd[1]) \o <<"-">> \o Pad2(ymd[2]) \o <<"-">> \o Pad2(ymd[3])

\* the text before / after the first "-" of s
RECURSIVE UpToDash(_)
UpToDash(s) ==
    IF s = <<>> \/ Head(s) = "-" THEN <<>> ELSE <<Head(s)>> \o UpToDash(Tail(s))

AfterDash(s) ==
    LET k == Len(UpToDash(s))
    IN  IF k >= Len(s) THEN <<>> ELSE SubSeq(s, k + 2, Len(s))

HasDash(s) == \E i \in 1..Len(s) : s[i] = "-"

AllDigits(s) == \A i \in 1..Len(s) : s[i] \in DigitChars

RECURSIVE NumVal(_)
NumVal(s) ==
    IF s = <<>> THEN 0 ELSE NumVal(SubSeq(s, 1, Len(s) - 1)) * 10 + DigitVal(s[Len(s)])

\* the directive patterns of _strptime: %Y = \d\d\d\d, %m = 1[0-2]|0[1-9]|[1-9],
\* %d = 3[0-1]|[1-2]\d|0[1-9]|[1-9]| [1-9]
MatchesY(s) == Len(s) = 4 /\ AllDigits(s)
MatchesM(s) == Len(s) \in {1, 2} /\ AllDigits(s) /\ NumVal(s) \in 1..12
MatchesD(s) ==
    \/ Len(s) \in {1, 2} /\ AllDigits(s) /\ NumVal(s) \in 1..31
    \/ Len(s) = 2 /\ s[1] = " " /\ s[2] \in DigitChars /\ NumVal(<<s[2]>>) \in 1..9

DayVal(s) == IF s[1] = " " THEN NumVal(<<s[2]>>) ELSE NumVal(s)

\* datetime.strptime(s, "%Y-%m-%d"): <<ordinal>> on success, <<>> on ValueError
Strptime(s) ==
    LET p1 == UpToDash(s)
        r1 == AfterDash(s)
        p2 == UpToDash(r1)
        p3 == AfterDash(r1)
    IN  IF /\ HasDash(s) /\ HasDash(r1) /\ ~HasDash(p3)
           /\ MatchesY(p1) /\ MatchesM(p2) /\ MatchesD(p3)
           /\ ValidYMD(NumVal(p1), NumVal(p2), DayVal(p3))
        THEN <<ToOrdinal(NumVal(p1), NumVal(p2), DayVal(p3))>>
        ELSE <<>>

\* ------------------------------------------------------------------------
\* Inputs
\* ------------------------------------------------------------------------
\* config["start_date"]: <<>> when the key is absent, <<text>> when given
StartDateInputs ==
    { <<>>,
      << <<>> >>,
      << Strftime(ToOrdinal(2024, 2, 29)) >>,
      << Strftime(ToOrdinal(2024, 1, 15)) >>,
      << <<"2", "0", "2", "4", "-", "3", "-", "1">> >>,
      << <<"2", "0", "2", "4", "/", "0", "3", "/", "0", "1">> >>,
      << <<"2", "0", "2", "4", "-", "0", "2", "-", "3", "0">> >>,
      << <<"0", "1", "-", "0", "3", "-", "2", "0", "2", "4">> >> }

\* config["report_range_days"]: <<>> when absent, <<n>> when given
RangeDaysInputs == { <<>>, <<1>>, <<7>>, <<45>> }

\* the date at which the run starts
TodayInputs == { ToOrdinal(2024, 2, 29), ToOrdinal(2024, 3, 1), ToOrdinal(2024, 12, 31) }

\* $.next_page of a response body; NoToken when the key is absent
NoToken == "<absent>"
Tokens == { NoToken, "", "2", "3" }

Statuses == { 200, 204, 400, 404, 499, 500, 503 }

\* what the session returns for one attempt: a response, or a transport failure
\* (a timeout, a reset connection) raised by requests
Responses ==
    [ kind : {"response"}, status : Statuses, json : {TRUE},
      nrec : 0..MaxRecs, next_page : Tokens ]
    \cup
    [ kind : {"response"}, status : Statuses, json : {FALSE},
      nrec : {0}, next_page : {NoToken} ]

TransportFailure == [ kind |-> "timeout", status |-> 0, json |-> FALSE,
                      nrec |-> 0, next_page |-> NoToken ]

NoResponse == [ kind |-> "none", status |-> 0, json |-> FALSE,
                nrec |-> 0, next_page |-> NoToken ]

NoRequest == [ start |-> <<>>, end |-> <<>>, page |-> NoToken ]

\* Python truthiness of a page token
Truthy(tok) == tok # NoToken /\ tok # ""

\* ------------------------------------------------------------------------
\* State
\* ------------------------------------------------------------------------
VARIABLES
    today,          \* the date datetime.now() returns
    ticks,          \* midnights passed so far
    cfgStartDate,   \* config["start_date"]
    cfgRangeDays,   \* config["report_range_days"]
    pc,             \* position of request_records
    interval_start, \* request_records' local interval_start
    prepared,       \* the prepared request
    exchanges,      \* every HTTP request sent, with what came back
    tries,          \* attempts of the retry decorator for the current request
    resp,           \* the response decorated_request returned
    counter,        \* request_counter
    pages,          \* request_records' local pages
    yielded,        \* the records handed to the caller, in order
    pagValue,       \* paginator.current_value
    pagFinished,    \* paginator.finished
    error,          \* the exception request_records ended with
    stopLog,        \* page count of the "Pagination stopped after" log line, 0 if none
    prStart,        \* prepare_request called on its own: interval_start
    prEnd,          \*   interval_end
    prToken,        \*   next_page_token
    prToday,        \*   the date datetime.now() returned inside the call
    prResult,       \*   the query parameters it built
    prPc,
    drStart,        \* date_range: start_date
    drEnd,          \*   end_date
    drInterval,     \*   interval_in_days
    current_date,   \*   local current_date
    interval_end,   \*   local interval_end
    windows,        \*   the pairs yielded so far
    drPc

clockVars  == <<today, ticks>>
engineVars == <<cfgStartDate, cfgRangeDays, pc, interval_start, prepared, exchanges,
                tries, resp, counter, pages, yielded, pagValue, pagFinished, error,
                stopLog>>
prVars     == <<prStart, prEnd, prToken, prToday, prResult, prPc>>
drVars     == <<drStart, drEnd, drInterval, current_date, interval_end, windows, drPc>>
vars       == <<clockVars, engineVars, prVars, drVars>>

EngineIdle ==
    /\ cfgStartDate = <<>> /\ cfgRangeDays = <<>>
    /\ pc = "idle" /\ interval_start = <<>> /\ prepared = NoRequest
    /\ exchanges = <<>> /\ tries = 0 /\ resp = NoResponse
    /\ counter = 0 /\ pages = 0 /\ yielded = <<>>
    /\ pagValue = NoToken /\ pagFinished = FALSE
    /\ error = "" /\ stopLog = 0

PrIdle ==
    /\ prStart = <<>> /\ prEnd = <<>> /\ prToken = NoToken
    /\ prToday = 0 /\ prResult = NoRequest /\ prPc = "idle"

DrIdle ==
    /\ drStart = 0 /\ drEnd = 0 /\ drInterval = 1
    /\ current_date = 0 /\ interval_end = 0 /\ windows = <<>> /\ drPc = "idle"

\* datetime.now() moves on to the next day
Tick ==
    /\ ticks < MaxTicks
    /\ today' = today + 1
    /\ ticks' = ticks + 1

\* ------------------------------------------------------------------------
\* ReportsStream.get_url_params / prepare_request
\* ------------------------------------------------------------------------
GetUrlParams(token) ==
    [ start |-> <<>>, end |-> <<>>,
      page |-> IF Truthy(token) THEN token ELSE NoToken ]

\* the mutant: only the sentinel is passed on as the sentinel
EndParamSentinelOnly(iend, now) ==
    IF iend = NOW THEN NOW ELSE iend

EndParam(iend, now) ==
    IF iend = Strftime(now) \/ iend = NOW THEN NOW ELSE iend

PrepareRequest(token, istart, iend, now) ==
    [ GetUrlParams(token) EXCEPT !.start = istart, !.end = EndParam(iend, now) ]

\* ------------------------------------------------------------------------
\* ApplovinStream.validate_response
\* ------------------------------------------------------------------------
\* the exception validate_response raises for response r, "ok" if none;
\* the try/except around response.json() swallows a body that is not JSON
ValidateResponseNoExcept(r) ==
    IF 400 <= r.status /\ r.status < 500
    THEN (IF r.json THEN "FatalAPIError" ELSE "JSONDecodeError")
    ELSE "ok"

ValidateResponse(r) ==
    IF 400 <= r.status /\ r.status < 500
    THEN "FatalAPIError"
    ELSE "ok"

\* the exceptions request_decorator re-attempts
Retried(exc) == exc \in {"RetriableAPIError", "Timeout"}

\* ------------------------------------------------------------------------
\* ReportsStream.request_records
\* ------------------------------------------------------------------------
RangeDays(cfg) == IF cfg = <<>> THEN DefaultRangeDays ELSE cfg[1]

\* the mutant: start_date is not looked at
ComputeStartFromRangeDays(sd, rd, now) == now - RangeDays(rd)

ComputeStart(sd, rd, now) ==
    IF sd # <<>> /\ sd[1] # <<>>
    THEN (IF Strptime(sd[1]) # <<>>
          THEN Strptime(sd[1])[1]
          ELSE now - RangeDays(rd))
    ELSE now - RangeDays(rd)

\* lines 177-195
Start ==
    /\ pc = "start"
    /\ interval_start' = Strftime(ComputeStart(cfgStartDate, cfgRangeDays, today))
    /\ pc' = "prepare"
    /\ UNCHANGED <<cfgStartDate, cfgRangeDays, prepared, exchanges, tries, resp,
                   counter, pages, yielded, pagValue, pagFinished, error, stopLog>>

\* lines 197-209
Prepare ==
    /\ pc = "prepare"
    /\ pagValue' = NoToken
    /\ pagFinished' = FALSE
    /\ pages' = 0
    /\ prepared' = PrepareRequest(NoToken, interval_start, NOW, today)
    /\ tries' = 0
    /\ pc' = "request"
    /\ UNCHANGED <<cfgStartDate, cfgRangeDays, interval_start, exchanges, resp,
                   counter, yielded, error, stopLog>>

\* line 211, one attempt of the decorated _request: send, then validate_response
Request ==
    /\ pc = "request"
    /\ \E o \in Responses \cup {TransportFailure} :
         LET exc == IF o.kind = "timeout" THEN "Timeout" ELSE ValidateResponse(o)
         IN  /\ exchanges' = Append(exchanges, [req |-> prepared, resp |-> o])
             /\ tries' = tries + 1
             /\ IF exc = "ok"
                THEN /\ resp' = o
                     /\ pc' = "account"
                     /\ error' = error
                ELSE IF Retried(exc) /\ tries + 1 < MaxTries
                THEN /\ pc' = "request"
                     /\ UNCHANGED <<resp, error>>
                ELSE /\ pc' = "error"
                     /\ error' = exc
                     /\ resp' = resp
    /\ UNCHANGED <<cfgStartDate, cfgRangeDays, interval_start, prepared, counter,
                   pages, yielded, pagValue, pagFinished, stopLog>>

\* what request_records does when the first page holds no record (lines 220-226)
OnEmptyPageRequestAgain == "request"

OnEmptyPage == "done"

\* the mutant: the counter is not incremented
IncrementNot(c) == c

\* request_counter.increment()
Increment(c) == c + 1

\* lines 212-227
Account ==
    /\ pc = "account"
    /\ counter' = Increment(counter)
    /\ pages' = pages + 1
    /\ IF ~resp.json
       THEN /\ pc' = "error"
            /\ error' = "JSONDecodeError"
            /\ UNCHANGED <<yielded, stopLog>>
       ELSE IF resp.nrec = 0
       THEN /\ stopLog' = pages + 1
            /\ pc' = OnEmptyPage
            /\ UNCHANGED <<yielded, error>>
       ELSE /\ yielded' = Append(yielded, <<pages + 1, 1>>)
            /\ pc' = "yielding"
            /\ UNCHANGED <<error, stopLog>>
    /\ UNCHANGED <<cfgStartDate, cfgRangeDays, interval_start, prepared, exchanges,
                   tries, resp, pagValue, pagFinished>>

\* line 228: the caller pulls the next record of the page
YieldRest ==
    /\ pc = "yielding"
    /\ Len(yielded) < resp.nrec
    /\ yielded' = Append(yielded, <<pages, Len(yielded) + 1>>)
    /\ UNCHANGED <<cfgStartDate, cfgRangeDays, pc, interval_start, prepared,
                   exchanges, tries, resp, counter, pages, pagValue, pagFinished,
                   error, stopLog>>

\* line 230: paginator.advance(resp), and the generator ends
Advance ==
    /\ pc = "yielding"
    /\ Len(yielded) = resp.nrec
    /\ IF Truthy(resp.next_page)
       THEN pagValue' = resp.next_page /\ pagFinished' = FALSE
       ELSE pagValue' = pagValue /\ pagFinished' = TRUE
    /\ pc' = "done"
    /\ UNCHANGED <<cfgStartDate, cfgRangeDays, interval_start, prepared, exchanges,
                   tries, resp, counter, pages, yielded, error, stopLog>>

\* the clock is read by Start and Prepare only
EngineTick ==
    /\ pc \in {"start", "prepare"}
    /\ Tick
    /\ UNCHANGED <<engineVars, prVars, drVars>>

Init ==
    /\ today \in TodayInputs
    /\ ticks = 0
    /\ cfgStartDate \in StartDateInputs
    /\ cfgRangeDays \in RangeDaysInputs
    /\ pc = "start" /\ interval_start = <<>> /\ prepared = NoRequest
    /\ exchanges = <<>> /\ tries = 0 /\ resp = NoResponse
    /\ counter = 0 /\ pages = 0 /\ yielded = <<>>
    /\ pagValue = NoToken /\ pagFinished = FALSE
    /\ error = "" /\ stopLog = 0
    /\ PrIdle
    /\ DrIdle

Next ==
    \/ EngineTick
    \/ (Start /\ UNCHANGED <<clockVars, prVars, drVars>>)
    \/ (Prepare /\ UNCHANGED <<clockVars, prVars, drVars>>)
    \/ (Request /\ UNCHANGED <<clockVars, prVars, drVars>>)
    \/ (Account /\ UNCHANGED <<clockVars, prVars, drVars>>)
    \/ (YieldRest /\ UNCHANGED <<clockVars, prVars, drVars>>)
    \/ (Advance /\ UNCHANGED <<clockVars, prVars, drVars>>)

Spec == Init /\ [][Next]_vars

\* ------------------------------------------------------------------------
\* prepare_request called on its own, with every kind of window end
\* ------------------------------------------------------------------------
\* "%Y-%m-%d" texts as strftime writes them, around the dates of TodayInputs
PrDateInputs ==
    { Strftime(t + k) : t \in TodayInputs, k \in {0 - 1, 0, 1} }

PrInit ==
    /\ today \in TodayInputs
    /\ ticks = 0
    /\ prStart \in PrDateInputs
    /\ prEnd \in PrDateInputs \cup {NOW}
    /\ prToken \in Tokens
    /\ prToday = 0 /\ prResult = NoRequest /\ prPc = "idle"
    /\ EngineIdle
    /\ DrIdle

\* lines 130-143
PrepareRequestCall ==
    /\ prPc = "idle"
    /\ prToday' = today
    /\ prResult' = PrepareRequest(prToken, prStart, prEnd, today)
    /\ prPc' = "done"
    /\ UNCHANGED <<prStart, prEnd, prToken, clockVars, engineVars, drVars>>

PrTick ==
    /\ prPc = "idle"
    /\ Tick
    /\ UNCHANGED <<engineVars, prVars, drVars>>

PrNext == PrTick \/ PrepareRequestCall

SpecPrepare == PrInit /\ [][PrNext]_vars

\* ------------------------------------------------------------------------
\* ReportsStream.date_range; datetimes are counted in half days
\* ------------------------------------------------------------------------
\* timedelta(days=n)
TimeDelta(n) == n * 2

\* the datetimes that exist (datetime.min .. datetime.max, scaled down)
DateLo == 0 - TimeDelta(MaxInterval)
DateHi == DrMax + TimeDelta(MaxInterval)

\* the yielded pairs are kept up to this many
HistCap == DrMax + 1

\* the mutant: the last interval is not cut at end_date
ClampEndNot(ie, e) == ie

\* lines 79-80
ClampEnd(ie, e) == IF ie > e THEN e ELSE ie

\* the mutant: current_date stays where it is
NextCurrentStuck(cur, ie) == cur

\* line 83
NextCurrent(cur, ie) == ie

DrInit ==
    /\ drStart \in 0..DrMax
    /\ drEnd \in 0..DrMax
    /\ drInterval \in (0 - 1)..MaxInterval
    /\ current_date = 0 /\ interval_end = 0 /\ windows = <<>>
    /\ drPc = "start"
    /\ today = 0 /\ ticks = 0
    /\ EngineIdle
    /\ PrIdle

\* line 74
DrEnter ==
    /\ drPc = "start"
    /\ current_date' = drStart
    /\ drPc' = "test"
    /\ UNCHANGED <<drStart, drEnd, drInterval, interval_end, windows>>

\* lines 75-82: one turn of the loop, up to the yield
DrTest ==
    /\ drPc = "test"
    /\ IF current_date < drEnd
       THEN LET ie == current_date + TimeDelta(drInterval)
            IN  IF ie < DateLo \/ ie > DateHi
                THEN /\ drPc' = "overflow"
                     /\ UNCHANGED <<interval_end, windows>>
                ELSE /\ interval_end' = ClampEnd(ie, drEnd)
                     /\ windows' = IF Len(windows) < HistCap
                                   THEN Append(windows, <<current_date, ClampEnd(ie, drEnd)>>)
                                   ELSE windows
                     /\ drPc' = "suspended"
       ELSE /\ drPc' = "done"
            /\ UNCHANGED <<interval_end, windows>>
    /\ UNCHANGED <<drStart, drEnd, drInterval, current_date>>

\* line 83: the caller asks for the next pair
DrResume ==
    /\ drPc = "suspended"
    /\ current_date' = NextCurrent(current_date, interval_end)
    /\ drPc' = "test"
    /\ UNCHANGED <<drStart, drEnd, drInterval, interval_end, windows>>

DrNext ==
    \/ (DrEnter /\ UNCHANGED <<clockVars, engineVars, prVars>>)
    \/ (DrTest /\ UNCHANGED <<clockVars, engineVars, prVars>>)
    \/ (DrResume /\ UNCHANGED <<clockVars, engineVars, prVars>>)

\* the caller keeps pulling from the generator
SpecDateRange == DrInit /\ [][DrNext]_vars /\ WF_vars(DrNext)

\* ------------------------------------------------------------------------
\* Properties
\* ------------------------------------------------------------------------
IsResponse(o) == o.kind = "response"
Is4xx(o) == IsResponse(o) /\ 400 <= o.status /\ o.status < 500
ResponsesReceived == { i \in 1..Len(exchanges) : IsResponse(exchanges[i].resp) }

\* C1: request_records stops requesting only once a response has an absent or
\* empty next-page token, or holds no record: when it has ended normally, the
\* last response is such a response.
C1_PaginationRunsUntilFinished ==
    pc = "done" => (resp.nrec = 0 \/ ~Truthy(resp.next_page))

\* C2: a response with status >= 500 is never handed to record extraction: the
\* response request_records works on has a status below 500.
C2_ServerErrorNotExtracted ==
    pc \in {"account", "yielding", "done"} => resp.status < 500

\* C3: a response with a status in [400,500) ends the run with FatalAPIError at
\* once: it is the last request sent, no response was handed to extraction, no
\* record is yielded and the counter is untouched, whether or not its body is JSON.
C3_FatalOn4xx ==
    \A i \in 1..Len(exchanges) :
        Is4xx(exchanges[i].resp) =>
            /\ i = Len(exchanges)
            /\ pc = "error"
            /\ error = "FatalAPIError"
            /\ resp = NoResponse
            /\ yielded = <<>>

\* C3 witness: the first request was answered 404 with a body that is not JSON.
C3_Witness ==
    /\ Len(exchanges) = 1
    /\ exchanges[1].resp.status = 404
    /\ ~exchanges[1].resp.json
    /\ pc = "error"

\* C6: scenario B: after page 1 came back with 2 records and next-page token
\* "2", a second request is sent for page "2" before the run ends.
C6_ScenarioBRequestsPage2 ==
    ( /\ pc = "done"
      /\ resp = [ kind |-> "response", status |-> 200, json |-> TRUE,
                  nrec |-> 2, next_page |-> "2" ] )
    => ( /\ Cardinality(ResponsesReceived) >= 2
         /\ exchanges[Len(exchanges)].req.page = "2"
         /\ stopLog = 2 )

\* C7: once the first page has come back with no record, request_records
\* yields nothing, sends no further request, raises nothing and ends (or is
\* about to process the page), whatever token the page carries.
C7_EarlyExit ==
    (IsResponse(resp) /\ resp.json /\ resp.nrec = 0) =>
        /\ pc \in {"account", "done"}
        /\ yielded = <<>>
        /\ error = ""
        /\ ResponsesReceived = {Len(exchanges)}
        /\ (pc = "done" => stopLog = 1)

\* C7 witness: an empty first page with a non-empty token, and the run has ended.
C7_Witness ==
    /\ pc = "done"
    /\ IsResponse(resp) /\ resp.json /\ resp.nrec = 0
    /\ Truthy(resp.next_page)

\* C8 as claimed: when the run has ended, the counter equals the number of HTTP
\* requests sent.
C8_CounterCountsEveryRequest ==
    pc \in {"done", "error"} => counter = Len(exchanges)

\* C8 amended: the counter never decreases, never exceeds the number of
\* requests sent, and once the response has been accounted for it equals the
\* number of responses decorated_request returned to request_records.
C8_CounterCountsReturnedResponses ==
    /\ [][counter' >= counter]_vars
    /\ [](counter <= Len(exchanges))
    /\ [](pc \in {"yielding", "done", "error"} =>
             counter = (IF IsResponse(resp) THEN 1 ELSE 0))

\* C8 witness: two attempts timed out, the third was answered, the run ended.
C8_Witness ==
    /\ pc = "done"
    /\ Len(exchanges) = 3
    /\ counter = 1

\* C9 as claimed: with start_date given, the start parameter is the same for
\* every report_range_days (and so for every current date too).
C9_StartDateAlone ==
    (cfgStartDate # <<>> /\ pc \notin {"start", "prepare"}) =>
        \A rd \in RangeDaysInputs, t \in TodayInputs :
            prepared.start = Strftime(ComputeStart(cfgStartDate, rd, t))

\* C9 amended: with a start_date that strptime accepts, the start parameter of
\* every request is that date written as YYYY-MM-DD.
C9_ValidStartDateAlone ==
    (cfgStartDate # <<>> /\ Strptime(cfgStartDate[1]) # <<>>
        /\ pc \notin {"start", "prepare"}) =>
        /\ prepared.start = Strftime(Strptime(cfgStartDate[1])[1])
        /\ \A i \in 1..Len(exchanges) :
               exchanges[i].req.start = Strftime(Strptime(cfgStartDate[1])[1])

\* C9 witness: start_date "2024-3-1" and report_range_days 45; a request was sent.
C9_Witness ==
    /\ cfgStartDate = << <<"2", "0", "2", "4", "-", "3", "-", "1">> >>
    /\ cfgRangeDays = <<45>>
    /\ Len(exchanges) >= 1
    /\ exchanges[1].req.start = Strftime(ToOrdinal(2024, 3, 1))

\* C10: prepare_request sends end = "now" exactly when interval_end is the
\* sentinel or the date of the day of the call, and interval_end itself
\* otherwise; start is interval_start.
C10_EndIsNowIffToday ==
    prPc = "done" =>
        /\ prResult.start = prStart
        /\ (prResult.end = NOW) <=> (prEnd = NOW \/ Strptime(prEnd) = <<prToday>>)
        /\ (prResult.end # NOW => prResult.end = prEnd)

\* C10 witness: interval_end is the date of the day of the call, a midnight
\* after the run began.
C10_Witness ==
    /\ prPc = "done"
    /\ ticks = 1
    /\ prEnd # NOW
    /\ Strptime(prEnd) = <<prToday>>
    /\ prResult.end = NOW

====
